---- MODULE Spec2Model ----
(***************************************************************************)
(* The todo service of src/main.py: the record store (users, todos), the  *)
(* token codec, the identity resolver and every request handler that      *)
(* reads or writes the store.  One action per handler; `resp` is the      *)
(* response of the handler that ran last, together with the identity the  *)
(* handler resolved and the path id it was called with.                   *)
(*                                                                         *)
(* Time is counted in whole seconds, the resolution of the `exp` claim of *)
(* a JSON web token.                                                      *)
(***************************************************************************)
EXTENDS Integers, FiniteSets

VARIABLES users, todos, todo_seq, tokens, now, resp

vars == <<users, todos, todo_seq, tokens, now, resp>>

(***************************************************************************)
(* Bounds of the model.                                                    *)
(***************************************************************************)
MaxTodos == 1
MaxTokens == 1
MaxSkew == 1

(***************************************************************************)
(* Python values.                                                          *)
(***************************************************************************)
PyNone == [py |-> "None"]
PyFalse == [py |-> "False"]
JWTError == [py |-> "JWTError"]

Str(s) == [str |-> s]

HTTPException(status_code, detail) ==
    [status_code |-> status_code, detail |-> detail]

IsHTTPException(v) == "status_code" \in DOMAIN v

(***************************************************************************)
(* Process-wide configuration.                                             *)
(***************************************************************************)
SECRET_KEY == "secret-key"
OTHER_KEY == "other-key"

TOKEN_TTL_MINUTES == 180

timedelta_minutes(m) == m * 60

(***************************************************************************)
(* Credential hasher: bcrypt_context.  A digest is opaque to the program,  *)
(* which only ever hands it back to verify.                                *)
(***************************************************************************)
bcrypt_hash(plain) == [bcrypt |-> plain]

bcrypt_verify(plain, digest) == digest = bcrypt_hash(plain)

(***************************************************************************)
(* Token codec: jose.jwt with HS256.                                       *)
(***************************************************************************)
jwt_encode(claims, key) == [jwt |-> claims, key |-> key]

jwt_decode_ignoring_exp(token, key, t) ==
    IF "jwt" \notin DOMAIN token THEN JWTError
    ELSE IF token.key # key THEN JWTError
    ELSE token.jwt

jwt_decode(token, key, t) ==
    IF "jwt" \notin DOMAIN token THEN JWTError
    ELSE IF token.key # key THEN JWTError
    ELSE IF "exp" \in DOMAIN token.jwt /\ token.jwt.exp < t THEN JWTError
    ELSE token.jwt

create_token_swapped(username, user_id, role, expires_delta) ==
    jwt_encode([sub |-> role, id |-> user_id, role |-> username,
                exp |-> now + expires_delta], SECRET_KEY)

create_token(username, user_id, role, expires_delta) ==
    jwt_encode([sub |-> username, id |-> user_id, role |-> role,
                exp |-> now + expires_delta], SECRET_KEY)

(***************************************************************************)
(* Identity resolver.                                                      *)
(***************************************************************************)
get_current_user_decodes_placeholder(token) ==
    IF token = PyNone \/ token = Str("") THEN PyNone
    ELSE LET payload == jwt_decode(token, SECRET_KEY, now) IN
         IF payload = JWTError
         THEN HTTPException(401, "Could not validate credentials")
         ELSE IF "sub" \notin DOMAIN payload \/ "id" \notin DOMAIN payload
         THEN PyNone
         ELSE [username |-> payload.sub, id |-> payload.id,
               user_role |-> IF "role" \in DOMAIN payload
                             THEN Str(payload.role) ELSE PyNone]

get_current_user(token) ==
    IF token = PyNone \/ token = Str("") \/ token = Str("undefined") THEN PyNone
    ELSE LET payload == jwt_decode(token, SECRET_KEY, now) IN
         IF payload = JWTError
         THEN HTTPException(401, "Could not validate credentials")
         ELSE IF "sub" \notin DOMAIN payload \/ "id" \notin DOMAIN payload
         THEN PyNone
         ELSE [username |-> payload.sub, id |-> payload.id,
               user_role |-> IF "role" \in DOMAIN payload
                             THEN Str(payload.role) ELSE PyNone]

oauth2_bearer(authorization) ==
    IF authorization = PyNone
    THEN HTTPException(401, "Not authenticated")
    ELSE authorization

user_dependency(authorization) ==
    LET token == oauth2_bearer(authorization) IN
    IF IsHTTPException(token) THEN token ELSE get_current_user(token)

IsIdentity(user) == "username" \in DOMAIN user

(***************************************************************************)
(* Authenticator.                                                          *)
(***************************************************************************)
authenticate_user_any_password(username, password) ==
    LET found == {u \in users : u.username = username} IN
    IF found = {} THEN PyNone
    ELSE CHOOSE u \in found : TRUE

authenticate_user(username, password) ==
    LET found == {u \in users : u.username = username} IN
    IF found = {} THEN PyNone
    ELSE LET user == CHOOSE u \in found : TRUE IN
         IF ~bcrypt_verify(password, user.password) THEN PyFalse
         ELSE user

(***************************************************************************)
(* Responses.                                                              *)
(***************************************************************************)
Response(op, user, id, status, body) ==
    [op |-> op, user |-> user, id |-> id, status |-> status, body |-> body]

Raise(op, user, id, exc) ==
    Response(op, user, id, exc.status_code, [detail |-> exc.detail])

redirect_to_login ==
    [redirect |-> "/login-page", delete_cookie |-> "access_token"]

TemplateResponse(name, context) == [template |-> name, context |-> context]

(***************************************************************************)
(* Request bodies.  The todo handlers receive a TodoRequest the framework  *)
(* has already validated; create_user validates its own raw body.          *)
(***************************************************************************)
TodoRequests ==
    { [title |-> "Buy milk", description |-> "two litres", priority |-> 1,
       complete |-> FALSE],
      [title |-> "Pay rent", description |-> "by friday", priority |-> 5,
       complete |-> TRUE] }

StrLen(s) ==
    CASE s = "al" -> 2
      [] s = "abc" -> 3
      [] s = "bob" -> 3
      [] s = "Bob" -> 3
      [] s = "Ray" -> 3
      [] s = "alice" -> 5
      [] s = "Alice" -> 5
      [] s = "Smith" -> 5
      [] s = "parol" -> 5
      [] s = "secret1" -> 7
      [] s = "new test" -> 8

RawUserRequests ==
    { [email |-> "alice@x.org", username |-> "alice", first_name |-> "Alice",
       last_name |-> "Smith", password |-> "secret1", role |-> "admin",
       phone_number |-> "+380 96"],
      [email |-> "bob@x.org", username |-> "bob", first_name |-> "Bob",
       last_name |-> "Ray", password |-> "parol", role |-> "user",
       phone_number |-> "+380 96"],
      [email |-> "alice@y.org", username |-> "alice", first_name |-> "Alice",
       last_name |-> "Ray", password |-> "parol", role |-> "user",
       phone_number |-> "+40 777"],
      [email |-> "al@x.org", username |-> "al", first_name |-> "Alice",
       last_name |-> "Smith", password |-> "abc", role |-> "admin",
       phone_number |-> "+40 777"] }

UserRequestValid(raw) ==
    /\ StrLen(raw.username) >= 3 /\ StrLen(raw.username) <= 32
    /\ StrLen(raw.first_name) >= 3 /\ StrLen(raw.first_name) <= 32
    /\ StrLen(raw.last_name) >= 3 /\ StrLen(raw.last_name) <= 32
    /\ StrLen(raw.password) >= 4 /\ StrLen(raw.password) <= 20

Usernames == {"alice", "bob", "yoyeah"}
Passwords == {"secret1", "parol", "new test"}
PhoneNumbers == {"+380 96", "+40 777"}
TodoIds == 1..MaxTodos

(***************************************************************************)
(* Todos.                                                                  *)
(***************************************************************************)
TodoOfAnyOwner(id, user) == {t \in todos : t.id = id}

OwnedTodo(id, user) == {t \in todos : t.id = id /\ t.owner_id = user.id}

get_todo(authorization, id) ==
    LET user == user_dependency(authorization)
        op == "get_todo" IN
    /\ UNCHANGED <<users, todos, todo_seq, tokens, now>>
    /\ resp' =
          IF IsHTTPException(user) THEN Raise(op, user, id, user)
          ELSE IF user = PyNone
          THEN Raise(op, user, id, HTTPException(401, "Authentication failed"))
          ELSE LET todo == OwnedTodo(id, user) IN
               IF todo # {}
               THEN Response(op, user, id, 200, CHOOSE t \in todo : TRUE)
               ELSE Raise(op, user, id, HTTPException(404, "Todo Not Found"))

create_todo(authorization, todo_request) ==
    LET user == user_dependency(authorization)
        op == "create_todo" IN
    IF IsHTTPException(user)
    THEN /\ resp' = Raise(op, user, 0, user)
         /\ UNCHANGED <<users, todos, todo_seq, tokens, now>>
    ELSE IF user = PyNone
    THEN /\ resp' = Raise(op, user, 0, HTTPException(401, "Authentication failed"))
         /\ UNCHANGED <<users, todos, todo_seq, tokens, now>>
    ELSE /\ todo_seq < MaxTodos
         /\ todo_seq' = todo_seq + 1
         /\ todos' = todos \cup
               {[id |-> todo_seq + 1,
                 title |-> todo_request.title,
                 description |-> todo_request.description,
                 priority |-> todo_request.priority,
                 complete |-> todo_request.complete,
                 owner_id |-> user.id]}
         /\ resp' = Response(op, user, 0, 201, PyNone)
         /\ UNCHANGED <<users, tokens, now>>

update_todo(authorization, id, todo_request) ==
    LET user == user_dependency(authorization)
        op == "update_todo" IN
    IF IsHTTPException(user)
    THEN /\ resp' = Raise(op, user, id, user)
         /\ UNCHANGED <<users, todos, todo_seq, tokens, now>>
    ELSE IF user = PyNone
    THEN /\ resp' = Raise(op, user, id, HTTPException(401, "Authentication failed"))
         /\ UNCHANGED <<users, todos, todo_seq, tokens, now>>
    ELSE LET todo == OwnedTodo(id, user) IN
         IF todo = {}
         THEN /\ resp' = Raise(op, user, id, HTTPException(404, "Todo Not Found"))
              /\ UNCHANGED <<users, todos, todo_seq, tokens, now>>
         ELSE /\ todos' = (todos \ todo) \cup
                    {[t EXCEPT !.title = todo_request.title,
                               !.description = todo_request.description,
                               !.priority = todo_request.priority,
                               !.complete = todo_request.complete] : t \in todo}
              /\ resp' = Response(op, user, id, 204, PyNone)
              /\ UNCHANGED <<users, todo_seq, tokens, now>>

delete_todo_ownership_first(authorization, id) ==
    LET user == user_dependency(authorization)
        op == "delete_todo" IN
    IF IsHTTPException(user)
    THEN /\ resp' = Raise(op, user, id, user)
         /\ UNCHANGED <<users, todos, todo_seq, tokens, now>>
    ELSE IF user = PyNone
    THEN /\ resp' = Raise(op, user, id, HTTPException(401, "Authentication failed"))
         /\ UNCHANGED <<users, todos, todo_seq, tokens, now>>
    ELSE IF OwnedTodo(id, user) = {}
    THEN /\ resp' = Raise(op, user, id, HTTPException(404, "Todo Not Found"))
         /\ UNCHANGED <<users, todos, todo_seq, tokens, now>>
    ELSE IF user.user_role # Str("admin")
    THEN /\ resp' = Raise(op, user, id, HTTPException(403, "Uh-uh"))
         /\ UNCHANGED <<users, todos, todo_seq, tokens, now>>
    ELSE /\ todos' = todos \ OwnedTodo(id, user)
         /\ resp' = Response(op, user, id, 204, PyNone)
         /\ UNCHANGED <<users, todo_seq, tokens, now>>

delete_todo(authorization, id) ==
    LET user == user_dependency(authorization)
        op == "delete_todo" IN
    IF IsHTTPException(user)
    THEN /\ resp' = Raise(op, user, id, user)
         /\ UNCHANGED <<users, todos, todo_seq, tokens, now>>
    ELSE IF user = PyNone
    THEN /\ resp' = Raise(op, user, id, HTTPException(401, "Authentication failed"))
         /\ UNCHANGED <<users, todos, todo_seq, tokens, now>>
    ELSE IF user.user_role # Str("admin")
    THEN /\ resp' = Raise(op, user, id, HTTPException(403, "Uh-uh"))
         /\ UNCHANGED <<users, todos, todo_seq, tokens, now>>
    ELSE LET todo == OwnedTodo(id, user) IN
         IF todo = {}
         THEN /\ resp' = Raise(op, user, id, HTTPException(404, "Todo Not Found"))
              /\ UNCHANGED <<users, todos, todo_seq, tokens, now>>
         ELSE /\ todos' = todos \ OwnedTodo(id, user)
              /\ resp' = Response(op, user, id, 204, PyNone)
              /\ UNCHANGED <<users, todo_seq, tokens, now>>

(***************************************************************************)
(* Users.                                                                  *)
(***************************************************************************)
UserById(user) == {u \in users : u.id = user.id}

create_user(raw_data) ==
    LET op == "create_user" IN
    IF ~UserRequestValid(raw_data)
    THEN /\ resp' = Raise(op, PyNone, 0, HTTPException(422, "validation error"))
         /\ UNCHANGED <<users, todos, todo_seq, tokens, now>>
    ELSE IF \E u \in users : u.username = raw_data.username \/ u.email = raw_data.email
    THEN /\ resp' = Raise(op, PyNone, 0, HTTPException(500, "Internal Server Error"))
         /\ UNCHANGED <<users, todos, todo_seq, tokens, now>>
    ELSE /\ users' = users \cup
               {[id |-> Cardinality(users) + 1,
                 email |-> raw_data.email,
                 username |-> raw_data.username,
                 first_name |-> raw_data.first_name,
                 last_name |-> raw_data.last_name,
                 password |-> bcrypt_hash(raw_data.password),
                 role |-> raw_data.role,
                 is_active |-> TRUE,
                 phone_number |-> raw_data.phone_number]}
         /\ resp' = Response(op, PyNone, 0, 201, PyNone)
         /\ UNCHANGED <<todos, todo_seq, tokens, now>>

get_user(authorization) ==
    LET user == user_dependency(authorization)
        op == "get_user" IN
    /\ UNCHANGED <<users, todos, todo_seq, tokens, now>>
    /\ resp' =
          IF IsHTTPException(user) THEN Raise(op, user, 0, user)
          ELSE IF user = PyNone
          THEN Raise(op, user, 0, HTTPException(401, "Authentication failed"))
          ELSE IF UserById(user) = {} THEN Response(op, user, 0, 200, PyNone)
          ELSE Response(op, user, 0, 200, CHOOSE u \in UserById(user) : TRUE)

change_password_unverified(authorization, password, new_password) ==
    LET user == user_dependency(authorization)
        op == "change_password" IN
    IF IsHTTPException(user)
    THEN /\ resp' = Raise(op, user, 0, user)
         /\ UNCHANGED <<users, todos, todo_seq, tokens, now>>
    ELSE IF user = PyNone
    THEN /\ resp' = Raise(op, user, 0, HTTPException(401, "Failed authentication"))
         /\ UNCHANGED <<users, todos, todo_seq, tokens, now>>
    ELSE IF UserById(user) = {}
    THEN /\ resp' = Raise(op, user, 0, HTTPException(500, "Internal Server Error"))
         /\ UNCHANGED <<users, todos, todo_seq, tokens, now>>
    ELSE LET user_model == CHOOSE u \in UserById(user) : TRUE IN
         /\ users' = (users \ {user_model}) \cup
               {[user_model EXCEPT !.password = bcrypt_hash(new_password)]}
         /\ resp' = Response(op, user, 0, 200, PyNone)
         /\ UNCHANGED <<todos, todo_seq, tokens, now>>

change_password(authorization, password, new_password) ==
    LET user == user_dependency(authorization)
        op == "change_password" IN
    IF IsHTTPException(user)
    THEN /\ resp' = Raise(op, user, 0, user)
         /\ UNCHANGED <<users, todos, todo_seq, tokens, now>>
    ELSE IF user = PyNone
    THEN /\ resp' = Raise(op, user, 0, HTTPException(401, "Failed authentication"))
         /\ UNCHANGED <<users, todos, todo_seq, tokens, now>>
    ELSE IF UserById(user) = {}
    THEN /\ resp' = Raise(op, user, 0, HTTPException(500, "Internal Server Error"))
         /\ UNCHANGED <<users, todos, todo_seq, tokens, now>>
    ELSE LET user_model == CHOOSE u \in UserById(user) : TRUE IN
         IF ~bcrypt_verify(password, user_model.password)
         THEN /\ resp' = Raise(op, user, 0, HTTPException(401, "Error on ur mama"))
              /\ UNCHANGED <<users, todos, todo_seq, tokens, now>>
         ELSE /\ users' = (users \ {user_model}) \cup
                    {[user_model EXCEPT !.password = bcrypt_hash(new_password)]}
              /\ resp' = Response(op, user, 0, 200, PyNone)
              /\ UNCHANGED <<todos, todo_seq, tokens, now>>

update_phone_number(authorization, phone_number) ==
    LET user == user_dependency(authorization)
        op == "update_phone_number" IN
    IF IsHTTPException(user)
    THEN /\ resp' = Raise(op, user, 0, user)
         /\ UNCHANGED <<users, todos, todo_seq, tokens, now>>
    ELSE IF user = PyNone
    THEN /\ resp' = Raise(op, user, 0, HTTPException(401, "Failed authentication"))
         /\ UNCHANGED <<users, todos, todo_seq, tokens, now>>
    ELSE IF UserById(user) = {}
    THEN /\ resp' = Raise(op, user, 0, HTTPException(500, "Internal Server Error"))
         /\ UNCHANGED <<users, todos, todo_seq, tokens, now>>
    ELSE LET user_model == CHOOSE u \in UserById(user) : TRUE IN
         /\ users' = (users \ {user_model}) \cup
               {[user_model EXCEPT !.phone_number = phone_number]}
         /\ resp' = Response(op, user, 0, 200, PyNone)
         /\ UNCHANGED <<todos, todo_seq, tokens, now>>

(***************************************************************************)
(* Tokens a client holds: at most MaxTokens are kept, a new one replacing  *)
(* an old one when the client holds that many.                             *)
(***************************************************************************)
Keep(token) ==
    IF token \in tokens \/ Cardinality(tokens) < MaxTokens
    THEN {tokens \cup {token}}
    ELSE {(tokens \ {old}) \cup {token} : old \in tokens}

create_access_token_naming_the_failure(username, password) ==
    LET user == authenticate_user(username, password)
        op == "create_access_token" IN
    IF user = PyNone
    THEN /\ resp' = Response(op, user, 0, 200, Str("Unknown username"))
         /\ UNCHANGED <<users, todos, todo_seq, tokens, now>>
    ELSE IF user = PyFalse
    THEN /\ resp' = Response(op, user, 0, 200, Str("Failed authentication"))
         /\ UNCHANGED <<users, todos, todo_seq, tokens, now>>
    ELSE LET token == create_token(user.username, user.id, user.role,
                                   timedelta_minutes(TOKEN_TTL_MINUTES)) IN
         /\ resp' = Response(op, user, 0, 200,
                              [access_token |-> token, token_type |-> "Bearer"])
         /\ tokens' \in Keep(token)
         /\ UNCHANGED <<users, todos, todo_seq, now>>

create_access_token(username, password) ==
    LET user == authenticate_user(username, password)
        op == "create_access_token" IN
    IF user = PyNone \/ user = PyFalse
    THEN /\ resp' = Response(op, user, 0, 200, Str("Failed authentication"))
         /\ UNCHANGED <<users, todos, todo_seq, tokens, now>>
    ELSE LET token == create_token(user.username, user.id, user.role,
                                   timedelta_minutes(TOKEN_TTL_MINUTES)) IN
         /\ resp' = Response(op, user, 0, 200,
                              [access_token |-> token, token_type |-> "Bearer"])
         /\ tokens' \in Keep(token)
         /\ UNCHANGED <<users, todos, todo_seq, now>>

(***************************************************************************)
(* Pages.                                                                  *)
(***************************************************************************)
render_todo_page(access_token) ==
    LET user == get_current_user(access_token)
        op == "render_todo_page" IN
    /\ UNCHANGED <<users, todos, todo_seq, tokens, now>>
    /\ resp' =
          IF IsHTTPException(user) THEN Response(op, user, 0, 200, PyNone)
          ELSE IF user = PyNone THEN Response(op, user, 0, 302, redirect_to_login)
          ELSE Response(op, user, 0, 200,
                 TemplateResponse("todo.html",
                   [todos |-> {t \in todos : t.owner_id = user.id}, user |-> user]))

add_todo_page(access_token) ==
    LET user == get_current_user(access_token)
        op == "add_todo_page" IN
    /\ UNCHANGED <<users, todos, todo_seq, tokens, now>>
    /\ resp' =
          IF IsHTTPException(user) THEN Response(op, user, 0, 302, redirect_to_login)
          ELSE IF user = PyNone THEN Response(op, user, 0, 302, redirect_to_login)
          ELSE Response(op, user, 0, 200,
                 TemplateResponse("add-todo.html", [user |-> user]))

edit_todo_page(access_token, todo_id) ==
    LET user == get_current_user(access_token)
        op == "edit_todo_page" IN
    /\ UNCHANGED <<users, todos, todo_seq, tokens, now>>
    /\ resp' =
          IF IsHTTPException(user) THEN Response(op, user, todo_id, 302, redirect_to_login)
          ELSE IF user = PyNone THEN Response(op, user, todo_id, 302, redirect_to_login)
          ELSE LET found == {t \in todos : t.id = todo_id}
                   todo == IF found = {} THEN PyNone ELSE CHOOSE t \in found : TRUE IN
               Response(op, user, todo_id, 200,
                 TemplateResponse("edit-todo.html", [todo |-> todo, user |-> user]))

(***************************************************************************)
(* Direct calls of the three functions, as the tests make them.            *)
(***************************************************************************)
timedelta_days(d) == d * 86400

authenticate_user_call(username, password) ==
    /\ resp' = Response("authenticate_user", PyNone, 0, 0,
                         authenticate_user(username, password))
    /\ UNCHANGED <<users, todos, todo_seq, tokens, now>>

create_token_call(username, user_id, role, expires_delta) ==
    LET token == create_token(username, user_id, role, expires_delta) IN
    /\ resp' = Response("create_token", PyNone, 0, 0, token)
    /\ tokens' \in Keep(token)
    /\ UNCHANGED <<users, todos, todo_seq, now>>

get_current_user_call(token) ==
    /\ resp' = Response("get_current_user", get_current_user(token), 0, 0, token)
    /\ UNCHANGED <<users, todos, todo_seq, tokens, now>>

(***************************************************************************)
(* The clock.                                                              *)
(***************************************************************************)
Instants ==
    (0..MaxSkew) \cup
    {timedelta_minutes(TOKEN_TTL_MINUTES) + k : k \in 0..MaxSkew}

Tick(t) ==
    /\ t > now
    /\ now' = t
    /\ UNCHANGED <<users, todos, todo_seq, tokens, resp>>

(***************************************************************************)
(* What a client can send.                                                 *)
(***************************************************************************)
ForgedToken ==
    jwt_encode([sub |-> "alice", id |-> 1, role |-> "admin",
                exp |-> timedelta_days(1)], OTHER_KEY)

Cookies == tokens \cup {PyNone, Str("undefined"), Str("garbage"), ForgedToken}

Authorizations == Cookies

PartialTokens ==
    { jwt_encode([sub |-> "testuser", id |-> 1, role |-> "user"], SECRET_KEY),
      jwt_encode([id |-> 1, role |-> "user", exp |-> timedelta_days(1)], SECRET_KEY),
      jwt_encode([sub |-> "testuser", role |-> "user", exp |-> timedelta_days(1)],
                 SECRET_KEY),
      jwt_encode([sub |-> "testuser", id |-> 1, exp |-> timedelta_days(1)],
                 SECRET_KEY) }

RawTokens == Cookies \cup PartialTokens \cup {Str("")}

TokenClaims == {<<"testuser", 1, "user">>, <<"alice", 2, "admin">>}

ExpiresDeltas == {0, timedelta_days(1)}

Init ==
    /\ users = {}
    /\ todos = {}
    /\ todo_seq = 0
    /\ tokens = {}
    /\ now = 0
    /\ resp = Response("startup", PyNone, 0, 0, PyNone)

(***************************************************************************)
(* The whole service.  Its state space is the product of the account, the  *)
(* todo and the clock dimensions; the specifications below each keep the   *)
(* handlers one group of properties is about.                              *)
(***************************************************************************)
Next ==
    \/ \E raw \in RawUserRequests : create_user(raw)
    \/ \E u \in Usernames, p \in Passwords : create_access_token(u, p)
    \/ \E a \in Authorizations, id \in TodoIds : get_todo(a, id)
    \/ \E a \in Authorizations, r \in TodoRequests : create_todo(a, r)
    \/ \E a \in Authorizations, id \in TodoIds, r \in TodoRequests :
          update_todo(a, id, r)
    \/ \E a \in Authorizations, id \in TodoIds : delete_todo(a, id)
    \/ \E a \in Authorizations : get_user(a)
    \/ \E a \in Authorizations, p \in Passwords, n \in Passwords :
          change_password(a, p, n)
    \/ \E a \in Authorizations, n \in PhoneNumbers : update_phone_number(a, n)
    \/ \E c \in Cookies : render_todo_page(c)
    \/ \E c \in Cookies : add_todo_page(c)
    \/ \E c \in Cookies, id \in TodoIds : edit_todo_page(c, id)
    \/ \E u \in Usernames, p \in Passwords : authenticate_user_call(u, p)
    \/ \E c \in TokenClaims, d \in ExpiresDeltas :
          create_token_call(c[1], c[2], c[3], d)
    \/ \E t \in RawTokens : get_current_user_call(t)
    \/ \E t \in Instants : Tick(t)

Spec == Init /\ [][Next]_vars

(***************************************************************************)
(* The todo handlers and pages, at one instant.                            *)
(***************************************************************************)
NextTodo ==
    \/ \E raw \in RawUserRequests : create_user(raw)
    \/ \E u \in Usernames, p \in Passwords : create_access_token(u, p)
    \/ \E a \in Authorizations, id \in TodoIds : get_todo(a, id)
    \/ \E a \in Authorizations, r \in TodoRequests : create_todo(a, r)
    \/ \E a \in Authorizations, id \in TodoIds, r \in TodoRequests :
          update_todo(a, id, r)
    \/ \E a \in Authorizations, id \in TodoIds : delete_todo(a, id)
    \/ \E c \in Cookies : render_todo_page(c)
    \/ \E c \in Cookies : add_todo_page(c)
    \/ \E c \in Cookies, id \in TodoIds : edit_todo_page(c, id)

SpecTodo == Init /\ [][NextTodo]_vars

(***************************************************************************)
(* The account handlers and the authenticator.                             *)
(***************************************************************************)
NextAccount ==
    \/ \E raw \in RawUserRequests : create_user(raw)
    \/ \E u \in Usernames, p \in Passwords : create_access_token(u, p)
    \/ \E u \in Usernames, p \in Passwords : authenticate_user_call(u, p)
    \/ \E a \in Authorizations : get_user(a)
    \/ \E a \in Authorizations, p \in Passwords, n \in Passwords :
          change_password(a, p, n)
    \/ \E a \in Authorizations, n \in PhoneNumbers : update_phone_number(a, n)

SpecAccount == Init /\ [][NextAccount]_vars

(***************************************************************************)
(* The token codec and the resolver under the clock.                       *)
(***************************************************************************)
NextCodec ==
    \/ \E raw \in RawUserRequests : create_user(raw)
    \/ \E u \in Usernames, p \in Passwords : create_access_token(u, p)
    \/ \E c \in TokenClaims, d \in ExpiresDeltas :
          create_token_call(c[1], c[2], c[3], d)
    \/ \E t \in RawTokens : get_current_user_call(t)
    \/ \E t \in Instants : Tick(t)

SpecCodec == Init /\ [][NextCodec]_vars

(***************************************************************************)
(* One account under the clock: its tokens presented to every endpoint     *)
(* that takes a bearer token.                                              *)
(***************************************************************************)
NextExpiry ==
    \/ \E raw \in {r \in RawUserRequests : r.username = "alice" /\ r.role = "admin"} :
          create_user(raw)
    \/ \E u \in Usernames, p \in Passwords : create_access_token(u, p)
    \/ \E t \in Instants : Tick(t)
    \/ \E a \in tokens, id \in TodoIds : get_todo(a, id)
    \/ \E a \in tokens, r \in TodoRequests : create_todo(a, r)
    \/ \E a \in tokens, id \in TodoIds, r \in TodoRequests :
          update_todo(a, id, r)
    \/ \E a \in tokens, id \in TodoIds : delete_todo(a, id)
    \/ \E a \in tokens : get_user(a)
    \/ \E a \in tokens, p \in Passwords, n \in Passwords :
          change_password(a, p, n)
    \/ \E a \in tokens, n \in PhoneNumbers : update_phone_number(a, n)

SpecExpiry == Init /\ [][NextExpiry]_vars

(***************************************************************************)
(* Claims about the todo handlers and the pages (SpecTodo).                *)
(***************************************************************************)
NotOwned(id, user) == \E t \in todos : t.id = id /\ t.owner_id # user.id

\* C1, as stated: a caller resolved from a valid token who calls get_todo,
\* update_todo or delete_todo on a record owned by someone else gets 404.
C1_NotOwnedIs404 ==
    ( /\ resp.op \in {"get_todo", "update_todo", "delete_todo"}
      /\ IsIdentity(resp.user)
      /\ NotOwned(resp.id, resp.user) )
    => resp.status = 404

C1_Step(a, id) ==
    LET user == user_dependency(a) IN
    ( /\ resp'.op \in {"get_todo", "update_todo", "delete_todo"}
      /\ IsIdentity(user)
      /\ NotOwned(id, user) ) =>
        /\ get_todo(a, id) => (resp'.status = 404 /\ todos' = todos)
        /\ \A r \in TodoRequests :
              update_todo(a, id, r) => (resp'.status = 404 /\ todos' = todos)
        /\ delete_todo(a, id) =>
              /\ resp'.status = IF user.user_role = Str("admin") THEN 404 ELSE 403
              /\ todos' = todos

\* C1, amended: on a record owned by someone else get_todo and update_todo
\* answer 404, delete_todo answers 404 to an admin caller and 403 to any
\* other caller, and in every case the record is left as it was.
C1_NotOwnedIsRefused ==
    [][\A a \in Authorizations, id \in TodoIds : C1_Step(a, id)]_vars

C1_Witness ==
    /\ resp.op = "delete_todo"
    /\ resp.status = 404
    /\ IsIdentity(resp.user)
    /\ NotOwned(resp.id, resp.user)

Exposed ==
    IF resp.op = "get_todo" /\ resp.status = 200 THEN {resp.body}
    ELSE IF resp.op = "render_todo_page" /\ "template" \in DOMAIN resp.body
    THEN resp.body.context.todos
    ELSE IF resp.op = "edit_todo_page" /\ "template" \in DOMAIN resp.body
    THEN {resp.body.context.todo} \ {PyNone}
    ELSE {}

\* C2: every record a handler returns or renders to a caller is owned by
\* that caller.
C2_OnlyOwnRecordsExposed ==
    \A t \in Exposed : IsIdentity(resp.user) /\ t.owner_id = resp.user.id

C3_Step(a, id) ==
    LET user == user_dependency(a)
        mine == {t \in todos : t.id = id /\ t.owner_id = user.id} IN
    (resp'.op = "delete_todo" /\ delete_todo(a, id)) =>
        IF ~IsIdentity(user)
        THEN resp'.status = 401 /\ todos' = todos
        ELSE IF user.user_role # Str("admin")
        THEN resp'.status = 403 /\ todos' = todos
        ELSE IF mine = {}
        THEN resp'.status = 404 /\ todos' = todos
        ELSE /\ resp'.status = 204
             /\ todos' = todos \ mine
             /\ todos' # todos

\* C3: delete_todo answers 401 to a caller without identity, else 403 to a
\* caller who is not admin whatever the id, else 404 for a record the admin
\* does not own, else 204 with the record removed; nothing is removed in
\* the first three cases.
C3_DeleteOrder ==
    [][\A a \in Authorizations, id \in TodoIds : C3_Step(a, id)]_vars

C3_Witness ==
    /\ resp.op = "delete_todo"
    /\ resp.status = 403
    /\ \E t \in todos : t.id = resp.id /\ t.owner_id = resp.user.id

\* C6: a page handler that resolves no identity from the cookie answers
\* with the redirect to /login-page that deletes the cookie.
C6_PagesRedirect ==
    ( /\ resp.op \in {"render_todo_page", "add_todo_page", "edit_todo_page"}
      /\ ~IsIdentity(resp.user) )
    => (resp.status = 302 /\ resp.body = redirect_to_login)

(***************************************************************************)
(* Claims about the authenticator and the account handlers (SpecAccount).  *)
(***************************************************************************)
C7_Step(username, password) ==
    LET named == {u \in users : u.username = username} IN
    ( /\ resp'.op = "authenticate_user"
      /\ authenticate_user_call(username, password) ) =>
        /\ users' = users
        /\ named = {} => resp'.body = PyNone
        /\ (named # {} /\ \A u \in named : ~bcrypt_verify(password, u.password))
              => resp'.body = PyFalse
        /\ (\E u \in named : bcrypt_verify(password, u.password))
              => /\ resp'.body \in named
                 /\ bcrypt_verify(password, resp'.body.password)

\* C7: authenticate_user returns None when no user has the username, False
\* when one has it and the password does not verify against its hash, and
\* that user's record when it verifies; the store is left as it was.
C7_AuthenticateOutcomes ==
    [][\A u \in Usernames, p \in Passwords : C7_Step(u, p)]_vars

C7_Witness ==
    /\ resp.op = "authenticate_user"
    /\ resp.body = PyFalse
    /\ users # {}

FailedLogin == [status |-> 200, body |-> Str("Failed authentication")]

C8_Step(username, password) ==
    LET user == authenticate_user(username, password) IN
    ( /\ resp'.op = "create_access_token"
      /\ create_access_token(username, password) ) =>
        IF user \in {PyNone, PyFalse}
        THEN [status |-> resp'.status, body |-> resp'.body] = FailedLogin
        ELSE /\ resp'.status = 200
             /\ DOMAIN resp'.body = {"access_token", "token_type"}
             /\ resp'.body.token_type = "Bearer"
             /\ resp'.body.access_token.jwt.sub = user.username
             /\ resp'.body.access_token.jwt.id = user.id
             /\ resp'.body.access_token.jwt.role = user.role

\* C8: POST /token answers an unknown username and a wrong password with
\* the same response, and answers with a Bearer token exactly when
\* authenticate_user returned a record, the token carrying that record's
\* username, id and role.
C8_LoginResponse ==
    [][\A u \in Usernames, p \in Passwords : C8_Step(u, p)]_vars

C8_Witness ==
    /\ resp.op = "create_access_token"
    /\ resp.user = PyFalse
    /\ resp.body = Str("Failed authentication")

C10_Step(a, password, new_password) ==
    LET user == user_dependency(a) IN
    ( /\ resp'.op = "change_password"
      /\ IsIdentity(user)
      /\ change_password(a, password, new_password) ) =>
        /\ UserById(user) # {}
        /\ LET me == CHOOSE u \in UserById(user) : TRUE IN
           IF ~bcrypt_verify(password, me.password)
           THEN resp'.status = 401 /\ users' = users
           ELSE /\ resp'.status = 200
                /\ \E mine \in users' :
                      /\ users' \ {mine} = users \ {me}
                      /\ [mine EXCEPT !.password = me.password] = me
                      /\ authenticate_user(me.username, new_password)' = mine
                      /\ password # new_password =>
                            authenticate_user(me.username, password)' = PyFalse

\* C10: change_password called with an identity answers 401 and leaves the
\* users as they were when the current password does not verify; when it
\* verifies it answers 200, after which authenticate_user returns the
\* record for the new password and False for the old one, and nothing but
\* the caller's password hash has changed.
C10_ChangePassword ==
    [][\A a \in Authorizations, p \in Passwords, n \in Passwords :
          C10_Step(a, p, n)]_vars

C10_Witness ==
    /\ resp.op = "change_password"
    /\ resp.status = 200
    /\ \E u \in users : u.id = resp.user.id /\ u.password = bcrypt_hash("new test")

(***************************************************************************)
(* Claims about token expiry (SpecExpiry).                                 *)
(***************************************************************************)
BearerEndpoints ==
    {"get_todo", "create_todo", "update_todo", "delete_todo", "get_user",
     "change_password", "update_phone_number"}

CalledWith(a) ==
    \/ \E id \in TodoIds : get_todo(a, id)
    \/ \E r \in TodoRequests : create_todo(a, r)
    \/ \E id \in TodoIds, r \in TodoRequests : update_todo(a, id, r)
    \/ \E id \in TodoIds : delete_todo(a, id)
    \/ get_user(a)
    \/ \E p \in Passwords, n \in Passwords : change_password(a, p, n)
    \/ \E n \in PhoneNumbers : update_phone_number(a, n)

C4_Expired(a) ==
    ( /\ resp'.op \in BearerEndpoints
      /\ now > a.jwt.exp
      /\ CalledWith(a) ) =>
        /\ resp'.status = 401
        /\ UNCHANGED <<users, todos, todo_seq>>

C4_Issued(username, password) ==
    ( /\ resp'.op = "create_access_token"
      /\ create_access_token(username, password)
      /\ "access_token" \in DOMAIN resp'.body ) =>
        resp'.body.access_token.jwt.exp = now + 10800

\* C4: a token of POST /token expires 180 minutes (10800 s) after it was
\* issued, and once the clock has passed a token's expiry every endpoint
\* that takes a bearer token answers it with 401 and leaves the users and
\* the todos as they were.
C4_ExpiredTokenRejected ==
    [][ /\ \A a \in tokens : C4_Expired(a)
        /\ \A u \in Usernames, p \in Passwords : C4_Issued(u, p) ]_vars

C4_Witness ==
    /\ resp.op = "update_phone_number"
    /\ resp.status = 401
    /\ resp.user = HTTPException(401, "Could not validate credentials")
    /\ \E a \in tokens : now > a.jwt.exp
    /\ users # {}

(***************************************************************************)
(* Claims about the resolver and the codec (SpecCodec).                    *)
(***************************************************************************)
Absent(t) == t \in {PyNone, Str(""), Str("undefined")}

DecodeFails(t) ==
    \/ "jwt" \notin DOMAIN t
    \/ t.key # SECRET_KEY
    \/ "exp" \in DOMAIN t.jwt /\ now > t.jwt.exp

C5_Step(t) ==
    (resp'.op = "get_current_user" /\ get_current_user_call(t)) =>
        IF Absent(t) THEN resp'.user = PyNone
        ELSE IF DecodeFails(t)
        THEN IsHTTPException(resp'.user) /\ resp'.user.status_code = 401
        ELSE IF "sub" \notin DOMAIN t.jwt \/ "id" \notin DOMAIN t.jwt
        THEN resp'.user = PyNone
        ELSE /\ DOMAIN resp'.user = {"username", "id", "user_role"}
             /\ resp'.user.username = t.jwt.sub
             /\ resp'.user.id = t.jwt.id
             /\ resp'.user.user_role =
                   IF "role" \in DOMAIN t.jwt THEN Str(t.jwt.role) ELSE PyNone

\* C5: get_current_user returns None for an absent or empty token and for
\* "undefined"; raises 401 for a token that does not decode (malformed,
\* signed with another key, expired); returns None for a token that decodes
\* without subject or id; and otherwise returns the username, id and role
\* the token carries.
C5_ResolverOutcomes ==
    [][\A t \in RawTokens : C5_Step(t)]_vars

C5_Witness ==
    /\ resp.op = "get_current_user"
    /\ resp.user = PyNone
    /\ "jwt" \in DOMAIN resp.body
    /\ "id" \notin DOMAIN resp.body.jwt

C9_Encode(c, d) ==
    ( /\ resp'.op = "create_token"
      /\ create_token_call(c[1], c[2], c[3], d) ) =>
        \A t \in Instants :
            /\ jwt_decode(resp'.body, OTHER_KEY, t) = JWTError
            /\ (now <= t /\ t < now + d) =>
                  LET claim == jwt_decode(resp'.body, SECRET_KEY, t) IN
                  /\ claim # JWTError
                  /\ claim.sub = c[1]
                  /\ claim.id = c[2]
                  /\ claim.role = c[3]

C9_Resolve(token) ==
    ( /\ resp'.op = "get_current_user"
      /\ now < token.jwt.exp
      /\ get_current_user_call(token) ) =>
        resp'.user = [username |-> token.jwt.sub, id |-> token.jwt.id,
                      user_role |-> Str(token.jwt.role)]

C9_OtherKey ==
    (resp'.op = "get_current_user" /\ get_current_user_call(ForgedToken)) =>
        resp'.user = HTTPException(401, "Could not validate credentials")

\* C9: at every instant before issue time + ttl, decoding a token of
\* create_token with the server's key gives back the subject, id and role
\* it was made from, and get_current_user returns them as the identity;
\* decoding with another key, or a token signed with another key, fails.
C9_RoundTrip ==
    [][ /\ \A c \in TokenClaims, d \in ExpiresDeltas : C9_Encode(c, d)
        /\ \A token \in tokens : C9_Resolve(token)
        /\ C9_OtherKey ]_vars

C9_Witness ==
    /\ resp.op = "get_current_user"
    /\ IsIdentity(resp.user)
    /\ resp.body \in tokens
    /\ now > 0
    /\ now < resp.body.jwt.exp
    /\ resp.body.jwt.exp = timedelta_days(1)

====
